---- MODULE Spec2Model ----
(***************************************************************************)
(* The scrapers of src/lib/scrapers: reddit_scraper.py, xbhp_scraper.py,   *)
(* xbhp_scraper_v2.py and xbhp_scraper_fallback.py, each run through its   *)
(* command-line form (the __main__ block) on an argument vector.           *)
(*                                                                         *)
(* A JSON object / Python dict is a record whose DOMAIN is its key set, so *)
(* d['k'] raises KeyError exactly when "k" \notin DOMAIN d.  A text is a   *)
(* run-length sequence <<[c |-> char, n |-> count], ...>> in canonical     *)
(* form (no empty run, no two adjacent runs of the same character), so     *)
(* that texts of 500 characters stay small.                                *)
(***************************************************************************)
EXTENDS Integers, Sequences, FiniteSets, TLC

VARIABLES variant, argv, pc, bike_idx, listing, idx, cur, results,
          log, stdout, stderr, exit_status

vars == <<variant, argv, pc, bike_idx, listing, idx, cur, results,
          log, stdout, stderr, exit_status>>

(***************************************************************************)
(* Bounds of the model.                                                    *)
(***************************************************************************)
MaxListing == 2
MaxArgs == 3

(***************************************************************************)
(* Texts.                                                                  *)
(***************************************************************************)
Min(a, b) == IF a < b THEN a ELSE b

Run(c, n) == [c |-> c, n |-> n]

EmptyText == <<>>

Whitespace == {" ", "\t"}

RECURSIVE TextLen(_)
TextLen(t) == IF t = <<>> THEN 0 ELSE Head(t).n + TextLen(Tail(t))

\* A text taken whole, with no slice.
TextSliceMut(t, k) == t

\* text[:k]
RECURSIVE TextSlice(_, _)
TextSlice(t, k) ==
    IF t = <<>> \/ k <= 0 THEN <<>>
    ELSE IF Head(t).n >= k THEN <<Run(Head(t).c, k)>>
    ELSE <<Head(t)>> \o TextSlice(Tail(t), k - Head(t).n)

\* re.sub(r'\s+', ' ', text)
RECURSIVE Collapse(_, _)
Collapse(t, acc) ==
    IF t = <<>> THEN acc
    ELSE IF Head(t).c \in Whitespace
         THEN IF acc # <<>> /\ acc[Len(acc)].c = " "
              THEN Collapse(Tail(t), acc)
              ELSE Collapse(Tail(t), Append(acc, Run(" ", 1)))
         ELSE Collapse(Tail(t), Append(acc, Head(t)))

\* text.strip()
Strip(t) ==
    LET l == IF t # <<>> /\ Head(t).c \in Whitespace THEN Tail(t) ELSE t
    IN  IF l # <<>> /\ l[Len(l)].c \in Whitespace
        THEN SubSeq(l, 1, Len(l) - 1) ELSE l

clean_text(text) == IF text = <<>> THEN <<>> ELSE Strip(Collapse(text, <<>>))

\* list[:n]
SliceSeq(s, n) == SubSeq(s, 1, Min(n, Len(s)))

\* dict.get(key, default)
Get(d, key, default) == IF key \in DOMAIN d THEN d[key] ELSE default

Has(d, keys) == keys \subseteq DOMAIN d

SeqsUpTo(S, n) == UNION {[1..k -> S] : k \in 0..n}

None == "None"

\* The entity the loop `for bike_key, bike_name in [...]` is at.
bike_key == IF bike_idx = 1 THEN "bike1" ELSE "bike2"

\* Exception classes, as far as the handlers tell them apart.
RequestException == "RequestException"
OtherException == "Exception"

\* An HTTP response: requests.get(...) followed by raise_for_status().
Http503 == [status |-> 503]
Ok(json) == [status |-> 200, json |-> json]
RaisesForStatus(resp) == resp.status >= 400

Sleep(secs) == [op |-> "sleep", secs |-> secs]
GetReq(kind, item, url, ok) ==
    [op |-> "get", kind |-> kind, bike |-> bike_key, item |-> item,
     url |-> url, ok |-> ok]

(***************************************************************************)
(* reddit_scraper.py                                                       *)
(***************************************************************************)
SelftextLimit == 500
BodyLimit == 300
CommentCap == 5
RedditLimit == 10
RedditDelay == 1


RedditInitResults(bike1, bike2) ==
    [bike1 |-> [name |-> bike1, posts |-> <<>>],
     bike2 |-> [name |-> bike2, posts |-> <<>>],
     metadata |-> [source |-> "reddit", subreddit |-> "IndianBikes",
                   total_posts |-> 0, total_comments |-> 0]]

\* The comment entries Reddit may serve.
Comment(id, author, body) ==
    [kind |-> "t1",
     data |-> [id |-> id, author |-> author, body |-> body,
               score |-> 1, created_utc |-> 1]]
CAlice == Comment("c1", "alice", <<Run("a", BodyLimit + 1)>>)
CDeleted == Comment("c2", "[deleted]", <<Run("a", 9)>>)
CNoAuthor ==
    [kind |-> "t1",
     data |-> [id |-> "c3", body |-> <<Run("b", 4)>>, score |-> 1,
               created_utc |-> 1]]
CMore == [kind |-> "more", data |-> [id |-> "m1", count |-> 7]]
CAutoMod == Comment("c4", "AutoModerator", <<Run("b", 30)>>)
CBob == Comment("c5", "bob", <<Run("a", BodyLimit)>>)
CCarol == Comment("c6", "carol", <<Run("a", 2), Run(" ", 2), Run("b", 2)>>)
CBroken == [kind |-> "t1", data |-> [author |-> "dave"]]

AllComments ==
    {CAlice, CDeleted, CNoAuthor, CMore, CAutoMod, CBob, CCarol, CBroken}

PostListing == [kind |-> "Listing", data |-> [children |-> <<>>]]
CommentForest(entries) ==
    [kind |-> "Listing", data |-> [children |-> entries]]

CommentsUrl(id) ==
    "https://www.reddit.com/r/IndianBikes/comments/" \o id \o "/.json"

\* The comment page behind each comments_url.
RedditCommentsPage(comments_url) ==
    CASE comments_url = CommentsUrl("p1")
           -> Ok(<<PostListing,
                   CommentForest(<<CAlice, CDeleted, CNoAuthor, CMore,
                                   CAutoMod, CBob, CCarol>>)>>)
      [] comments_url = CommentsUrl("p2") -> Http503
      [] comments_url = CommentsUrl("p3")
           -> Ok(<<PostListing, [kind |-> "Listing", data |-> [after |-> None]]>>)
      [] comments_url = CommentsUrl("p4")
           -> Ok(<<PostListing, CommentForest(<<CBob, CBroken, CCarol>>)>>)
      [] comments_url = CommentsUrl("p5") -> Ok(<<PostListing>>)
      [] OTHER -> Ok(<<PostListing, [kind |-> "Listing"]>>)

\* The search matches Reddit may serve.
Child(id, extra) ==
    [kind |-> "t3",
     data |-> [id |-> id, title |-> id, score |-> 3,
               permalink |-> "/r/IndianBikes/comments/" \o id \o "/",
               created_utc |-> 2, num_comments |-> 7] @@ extra]
P1 == Child("p1", [author |-> "erin", selftext |-> <<Run("a", SelftextLimit + 1)>>])
P2 == Child("p2", [selftext |-> <<Run("b", SelftextLimit)>>])
P3 == Child("p3", [author |-> "erin"])
P4 == Child("p4", [author |-> "[deleted]", selftext |-> <<Run("a", 3), Run("\t", 1)>>])
P5 == Child("p5", [author |-> "erin", selftext |-> <<>>])
P6 == Child("p6", [author |-> "erin", selftext |-> <<Run(" ", 2)>>])
PNoId == [kind |-> "t3", data |-> [title |-> "p7", score |-> 3]]

AllRedditChildren == {P1, P2, P3, P4, P5, P6, PNoId}

RedditChildren == {P1, P2, P3, PNoId}

\* A listing longer than the limit the request asks for.
RedditLongListing ==
    <<P5, P4, P6, P1>> \o [i \in 1..(RedditLimit - 3) |-> P5]

RedditListingResponses ==
    {Http503, Ok([kind |-> "Listing", data |-> [after |-> None]]),
     Ok([kind |-> "Listing", data |-> [children |-> RedditLongListing]])}
    \cup {Ok([kind |-> "Listing", data |-> [children |-> s]]) :
            s \in SeqsUpTo(RedditChildren, MaxListing)}

\* Lines 60-75: the post record of one search match, or a KeyError.
PostKeys == {"id", "title", "score", "permalink", "created_utc", "num_comments"}
BuildPost(post) ==
    IF ~Has(post, {"data"}) \/ ~Has(post.data, PostKeys)
    THEN [exc |-> OtherException]
    ELSE LET post_data == post.data
         IN  [exc |-> None,
              post_obj |->
                [id |-> post_data.id,
                 title |-> post_data.title,
                 author |-> Get(post_data, "author", "[deleted]"),
                 score |-> post_data.score,
                 url |-> "https://reddit.com" \o post_data.permalink,
                 created_utc |-> post_data.created_utc,
                 num_comments |-> post_data.num_comments,
                 selftext |-> TextSlice(Get(post_data, "selftext", EmptyText),
                                        SelftextLimit),
                 comments |-> <<>>],
              comments_url |-> "https://www.reddit.com" \o post_data.permalink
                                 \o ".json"]

\* Lines 90-107: the loop over comment_listing[:5].  acc holds the comments
\* appended so far, the running metadata.total_comments and the exception
\* that ended the loop, if any.
RECURSIVE ProcessComments(_, _)
ProcessComments(entries, acc) ==
    IF entries = <<>> THEN acc
    ELSE LET comment == Head(entries)
         IN  IF Get(comment, "kind", None) # "t1"
             THEN ProcessComments(Tail(entries), acc)
             ELSE IF ~Has(comment, {"data"})
             THEN [acc EXCEPT !.exc = OtherException]
             ELSE LET c_data == comment.data
                  IN  IF Get(c_data, "author", None) \in {"[deleted]", "AutoModerator"}
                      THEN ProcessComments(Tail(entries), acc)
                      ELSE IF ~Has(c_data, {"id", "score", "created_utc"})
                      THEN [acc EXCEPT !.exc = OtherException]
                      ELSE LET comment_obj ==
                                 [id |-> c_data.id,
                                  author |-> Get(c_data, "author", "[deleted]"),
                                  body |-> TextSlice(Get(c_data, "body", EmptyText),
                                                     BodyLimit),
                                  score |-> c_data.score,
                                  created_utc |-> c_data.created_utc]
                           IN  ProcessComments(Tail(entries),
                                 [acc EXCEPT !.comments = Append(@, comment_obj),
                                             !.total = @ + 1])

\* Lines 82-109: what the comment page response does to the post and the total.
HandleCommentsResponse(resp, total) ==
    LET acc0 == [comments |-> <<>>, total |-> total, exc |-> None]
    IN  IF RaisesForStatus(resp) THEN [acc0 EXCEPT !.exc = RequestException]
        ELSE LET comments_data == resp.json
             IN  IF Len(comments_data) > 1 /\ Has(comments_data[2], {"data"})
                 THEN IF ~Has(comments_data[2].data, {"children"})
                      THEN [acc0 EXCEPT !.exc = OtherException]
                      ELSE ProcessComments(
                             SliceSeq(comments_data[2].data.children, CommentCap),
                             acc0)
                 ELSE acc0

(***************************************************************************)
(* Control flow shared by the scripts: the loop over the two entities, the *)
(* handlers of the outer try and the __main__ block.                       *)
(***************************************************************************)
Variants == {"reddit", "xbhp", "xbhp_v2", "xbhp_fallback"}

\* sys.argv[1:]
ArgVectors ==
    {SubSeq(<<"Royal Enfield Classic 350", "Honda CB350", "Bajaj Pulsar",
              "KTM Duke">>, 1, k) : k \in 0..MaxArgs}
    \cup {<<"Honda CB350", "Royal Enfield Classic 350">>}

UsageJson == "usage"
ErrorJson == "error"

\* json.dumps(results, indent=2): the document, as one text payload.
JsonDumps(doc) == [json |-> doc]

\* A handler with the `except requests.exceptions.RequestException` clause
\* alone.
OuterCatchesMut(exc) == exc = RequestException

\* The outer `except requests.exceptions.RequestException` and
\* `except Exception` clauses: between them they catch every exception.
OuterCatches(exc) == exc \in {RequestException, OtherException}

\* A loop that ends at the first entity that fails.
EndEntityMut(err) ==
    /\ pc' = "return"
    /\ bike_idx' = bike_idx
    /\ listing' = <<>>
    /\ idx' = 1
    /\ cur' = <<>>
    /\ stderr' = err
    /\ UNCHANGED <<stdout, exit_status>>

\* The for loop moves to the next entity, or falls through to the return.
EndEntity(err) ==
    /\ IF bike_idx = 2
       THEN pc' = "return" /\ bike_idx' = bike_idx
       ELSE pc' = "search" /\ bike_idx' = bike_idx + 1
    /\ listing' = <<>>
    /\ idx' = 1
    /\ cur' = <<>>
    /\ stderr' = err
    /\ UNCHANGED <<stdout, exit_status>>

\* An exception leaves the scraper: the except clause of the __main__ block.
Propagate(err) ==
    /\ pc' = "exited"
    /\ stderr' = Append(err, ErrorJson)
    /\ exit_status' = 1
    /\ UNCHANGED <<bike_idx, listing, idx, cur, stdout>>

\* An exception raised inside the outer try of the entity loop.
OuterExcept(exc, err) ==
    IF OuterCatches(exc)
    THEN EndEntity(Append(err, IF exc = RequestException
                               THEN "Error scraping" ELSE "Unexpected error"))
    ELSE Propagate(err)

(***************************************************************************)
(* reddit_scraper.py: scrape_reddit_no_auth                                *)
(***************************************************************************)
RedditSearchUrl == "https://www.reddit.com/r/IndianBikes/search.json"

\* Lines 52-55: the listing fetch of the current entity.
RedditSearch ==
    /\ variant = "reddit"
    /\ pc = "search"
    /\ \E resp \in RedditListingResponses :
         LET err == Append(stderr, "Searching Reddit")
         IN  /\ log' = Append(log, GetReq("listing", 0, RedditSearchUrl,
                                          ~RaisesForStatus(resp)))
             /\ IF RaisesForStatus(resp)
                THEN OuterExcept(RequestException, err)
                ELSE IF ~Has(resp.json, {"data"})
                        \/ ~Has(resp.json.data, {"children"})
                THEN OuterExcept(OtherException, err)
                ELSE /\ listing' = resp.json.data.children
                     /\ idx' = 1
                     /\ pc' = "post"
                     /\ stderr' = err
                     /\ UNCHANGED <<bike_idx, cur, stdout, exit_status>>
    /\ UNCHANGED <<variant, argv, results>>

\* Lines 59-75: the head of the loop over the children, and the post record.
RedditPost ==
    /\ variant = "reddit"
    /\ pc = "post"
    /\ IF idx > Len(listing)
       THEN EndEntity(Append(stderr, "Found posts"))
       ELSE LET b == BuildPost(listing[idx])
            IN  IF b.exc # None
                THEN OuterExcept(b.exc, stderr)
                ELSE /\ cur' = [post_obj |-> b.post_obj,
                                comments_url |-> b.comments_url]
                     /\ pc' = "sleep"
                     /\ UNCHANGED <<bike_idx, listing, idx, stdout, stderr,
                                    exit_status>>
    /\ UNCHANGED <<variant, argv, results, log>>

\* Line 79: time.sleep(1).
RedditSleep ==
    /\ variant = "reddit"
    /\ pc = "sleep"
    /\ log' = Append(log, Sleep(RedditDelay))
    /\ pc' = "comments"
    /\ UNCHANGED <<variant, argv, bike_idx, listing, idx, cur, results,
                   stdout, stderr, exit_status>>

\* A comment step that fetches the comment page a second time when the first
\* fetch failed.
RedditCommentsRetry ==
    /\ variant = "reddit"
    /\ pc = "comments"
    /\ LET resp == RedditCommentsPage(cur.comments_url)
           h == HandleCommentsResponse(resp, results.metadata.total_comments)
           post_obj == [cur.post_obj EXCEPT !.comments = h.comments]
           tried == \E i \in 1..Len(log) :
                      /\ log[i].op = "get"
                      /\ log[i].kind = "detail"
                      /\ log[i].bike = bike_key
                      /\ log[i].item = idx
       IN  /\ log' = Append(log, GetReq("detail", idx, cur.comments_url,
                                        ~RaisesForStatus(resp)))
           /\ IF RaisesForStatus(resp) /\ ~tried
              THEN /\ pc' = "sleep"
                   /\ UNCHANGED <<results, stderr, idx, cur>>
              ELSE /\ results' = [results EXCEPT
                                    ![bike_key].posts = Append(@, post_obj),
                                    !.metadata.total_posts = @ + 1,
                                    !.metadata.total_comments = h.total]
                   /\ stderr' = Append(stderr, "Fetching comments")
                   /\ idx' = idx + 1
                   /\ cur' = <<>>
                   /\ pc' = "post"
    /\ UNCHANGED <<variant, argv, bike_idx, listing, stdout, exit_status>>

\* A comment step whose failure drops the post and ends the entity.
RedditCommentsMut ==
    /\ variant = "reddit"
    /\ pc = "comments"
    /\ LET resp == RedditCommentsPage(cur.comments_url)
           h == HandleCommentsResponse(resp, results.metadata.total_comments)
           post_obj == [cur.post_obj EXCEPT !.comments = h.comments]
       IN  /\ log' = Append(log, GetReq("detail", idx, cur.comments_url,
                                        ~RaisesForStatus(resp)))
           /\ IF h.exc # None
              THEN /\ results' = results
                   /\ EndEntity(Append(stderr, "Warning"))
              ELSE /\ results' = [results EXCEPT
                                    ![bike_key].posts = Append(@, post_obj),
                                    !.metadata.total_posts = @ + 1,
                                    !.metadata.total_comments = h.total]
                   /\ stderr' = Append(stderr, "Fetching comments")
                   /\ idx' = idx + 1
                   /\ cur' = <<>>
                   /\ pc' = "post"
                   /\ UNCHANGED <<bike_idx, listing, stdout, exit_status>>
    /\ UNCHANGED <<variant, argv>>

\* Lines 81-117: the comment fetch, the comment loop, the inner handler
\* (`except Exception`, which catches everything) and the append of the post.
RedditComments ==
    /\ variant = "reddit"
    /\ pc = "comments"
    /\ LET resp == RedditCommentsPage(cur.comments_url)
           h == HandleCommentsResponse(resp, results.metadata.total_comments)
           post_obj == [cur.post_obj EXCEPT !.comments = h.comments]
           reached_print == /\ h.exc = None
                            /\ Len(resp.json) > 1
                            /\ Has(resp.json[2], {"data"})
           err1 == Append(stderr, "Fetching comments")
       IN  /\ log' = Append(log, GetReq("detail", idx, cur.comments_url,
                                        ~RaisesForStatus(resp)))
           /\ results' = [results EXCEPT
                            ![bike_key].posts = Append(@, post_obj),
                            !.metadata.total_posts = @ + 1,
                            !.metadata.total_comments = h.total]
           /\ stderr' = IF h.exc # None THEN Append(err1, "Warning")
                        ELSE IF reached_print THEN Append(err1, "Found comments")
                        ELSE err1
    /\ idx' = idx + 1
    /\ cur' = <<>>
    /\ pc' = "post"
    /\ UNCHANGED <<variant, argv, bike_idx, listing, stdout, exit_status>>

(***************************************************************************)
(* xbhp_scraper.py: scrape_xbhp_forums (direct search)                     *)
(*                                                                         *)
(* A URL is a sequence of tokens, so that startswith('http') and the       *)
(* substring test of the Google variant are tests on tokens.  A parsed     *)
(* page is a record of what each find_all locator returns on it.           *)
(***************************************************************************)
ContentLimit == 500
MinPostLen == 20
ThreadCap == 10
PostCap == 5
XbhpDelay == 2

XbhpInitResults(bike1, bike2) ==
    [bike1 |-> [name |-> bike1, threads |-> <<>>],
     bike2 |-> [name |-> bike2, threads |-> <<>>],
     metadata |-> [source |-> "xbhp", total_threads |-> 0, total_posts |-> 0]]

XbhpSearchUrl == <<"https://", "www.", "xbhp.com/talkies", "/search.php">>
XbhpBase == <<"https://", "www.", "xbhp.com/talkies", "/">>
ThreadUrl(file) == XbhpBase \o <<file>>

StartsWithHttp(url) == url # <<>> /\ Head(url) \in {"http://", "https://"}

Word(w) == <<Run(w, 1)>>
Unknown == Word("Unknown")

\* The post elements a thread page may hold.  An element with "raises" is
\* one whose processing raises that exception.
PostElem(text, user) ==
    [text |-> text, username_container |-> [username |-> user]]
ELong == PostElem(<<Run("a", ContentLimit + 1)>>, <<Run(" ", 1)>> \o Word("rider"))
EShort == PostElem(<<Run("a", MinPostLen - 1)>>, Word("rider"))
EBlank == PostElem(<<Run(" ", 3), Run("\t", 2)>>, Word("rider"))
EEmpty == PostElem(<<>>, Word("rider"))
ESpaced ==
    [text |-> <<Run(" ", 1), Run("a", 10), Run(" ", 2), Run("\t", 1),
                Run("b", MinPostLen - 11), Run(" ", 1)>>]
EPlain ==
    [text |-> <<Run("b", MinPostLen + 5)>>,
     username_container |-> [avatar |-> None]]
EFull == PostElem(<<Run("b", ContentLimit)>>, Word("rider"))
ERaises == [raises |-> OtherException]

ThreadPage(postbody, post_message) ==
    [status |-> 200,
     soup |-> [postbody |-> postbody, post_message |-> post_message]]

\* The thread page behind each thread URL.
XbhpThreadPage(thread_url) ==
    CASE thread_url = ThreadUrl("t1.html")
           -> ThreadPage(<<ELong, EShort, ESpaced, EBlank, EPlain, EFull>>, <<EFull>>)
      [] thread_url = ThreadUrl("t2.html") -> Http503
      [] thread_url = ThreadUrl("t3.html") -> ThreadPage(<<EPlain, ERaises, EFull>>, <<>>)
      [] thread_url = ThreadUrl("t4.html") -> ThreadPage(<<>>, <<EFull, EEmpty>>)
      [] thread_url = ThreadUrl("t5.html") -> [status |-> 200]
      [] OTHER -> ThreadPage(<<>>, <<>>)

\* The thread entries a search page may hold.
Anchor(href, text) == [name |-> "a", href |-> href, text |-> text]
DivTitle(href, text) == [name |-> "div", a |-> Anchor(href, text)]
T1 == DivTitle(<<"t1.html">>, <<Run("\t", 1), Run("a", 60), Run(" ", 2)>>)
T2 == DivTitle(<<"t2.html">>, <<Run("b", 4)>>)
T3 == DivTitle(ThreadUrl("t3.html"), <<Run("a", 4)>>)
T4 == DivTitle(<<"t4.html">>, <<Run("a", 2), Run(" ", 1), Run("b", 2)>>)
T5 == DivTitle(<<"t5.html">>, <<Run("a", 5)>>)
T6 == DivTitle(<<"t6.html">>, <<Run("a", 6)>>)
TNoLink == [name |-> "div"]
TNoTitle == DivTitle(<<"t1.html">>, <<Run(" ", 2)>>)
TNoHref == [name |-> "div", a |-> [name |-> "a", text |-> <<Run("b", 7)>>]]
TRaises == [name |-> "div", raises |-> OtherException]
A1 == Anchor(<<"t1.html">>, <<Run("a", 3)>>)
A4 == Anchor(<<"http://", "xbhp.com/talkies", "/", "t4.html">>, <<Run("b", 3)>>)

XbhpThreads == {T1, T2, T3, TNoLink}

\* A search page with more thread entries than the cap.
XbhpLongListing ==
    <<T4, TNoTitle, T5, TNoHref, T1, TRaises, T2>>
    \o [i \in 1..(ThreadCap - 6) |-> T6]

SearchPage(threadtitle, thread_title) ==
    [status |-> 200,
     soup |-> [threadtitle |-> threadtitle, thread_title |-> thread_title]]

XbhpListingResponses ==
    {Http503, [status |-> 200], SearchPage(XbhpLongListing, <<>>)}
    \cup {SearchPage(s, <<A4, A1>>) : s \in SeqsUpTo(XbhpThreads, MaxListing)}

\* Both locators at once.
FindThreadsMut(soup) == soup.threadtitle \o soup.thread_title

\* Lines 70-74: div.threadtitle, else a#thread_title_N.
FindThreads(soup) ==
    IF soup.threadtitle # <<>> THEN soup.threadtitle ELSE soup.thread_title

\* Lines 113-117: div.postbody, else div#post_message_N.
FindPosts(soup) ==
    IF soup.postbody # <<>> THEN soup.postbody ELSE soup.post_message

\* Lines 81-102: the thread record of one entry; "skip" is `continue`.
BuildThread(thread_elem) ==
    IF Has(thread_elem, {"raises"}) THEN [exc |-> thread_elem.raises]
    ELSE LET no_link == thread_elem.name = "div" /\ ~Has(thread_elem, {"a"})
             link == IF thread_elem.name = "div"
                     THEN thread_elem.a ELSE thread_elem
         IN  IF no_link THEN [exc |-> None, skip |-> TRUE]
             ELSE LET href == Get(link, "href", <<>>)
                      thread_url == IF ~StartsWithHttp(href)
                                    THEN XbhpBase \o href ELSE href
                      thread_title == clean_text(link.text)
                  IN  IF thread_title = <<>> \/ thread_url = <<>>
                      THEN [exc |-> None, skip |-> TRUE]
                      ELSE [exc |-> None, skip |-> FALSE,
                            thread_obj |-> [title |-> thread_title,
                                            url |-> thread_url,
                                            posts |-> <<>>]]

\* Lines 126-131: the author of a post element.
Author(post_elem) ==
    IF Has(post_elem, {"username_container"})
       /\ Has(post_elem.username_container, {"username"})
    THEN clean_text(post_elem.username_container.username)
    ELSE Unknown

\* Lines 119-140: the loop over post_elements[:5].  acc holds the posts
\* appended so far, the running metadata.total_posts and the exception that
\* ended the loop, if any.
RECURSIVE XbhpProcessPosts(_, _)
XbhpProcessPosts(elems, acc) ==
    IF elems = <<>> THEN acc
    ELSE LET post_elem == Head(elems)
         IN  IF Has(post_elem, {"raises"})
             THEN [acc EXCEPT !.exc = post_elem.raises]
             ELSE LET post_text == clean_text(post_elem.text)
                  IN  IF post_text = <<>> \/ TextLen(post_text) < MinPostLen
                      THEN XbhpProcessPosts(Tail(elems), acc)
                      ELSE LET post_obj ==
                                 [author |-> Author(post_elem),
                                  content |-> TextSlice(post_text, ContentLimit),
                                  timestamp |-> None]
                           IN  XbhpProcessPosts(Tail(elems),
                                 [acc EXCEPT !.posts = Append(@, post_obj),
                                             !.total = @ + 1])

\* Lines 108-140: what the thread page response does to the thread's posts
\* and to the total.
XbhpHandleThreadResponse(resp, total) ==
    LET acc0 == [posts |-> <<>>, total |-> total, exc |-> None]
    IN  IF RaisesForStatus(resp) THEN [acc0 EXCEPT !.exc = RequestException]
        ELSE IF ~Has(resp, {"soup"}) THEN [acc0 EXCEPT !.exc = OtherException]
        ELSE XbhpProcessPosts(SliceSeq(FindPosts(resp.soup), PostCap), acc0)

\* Lines 53-76: the listing fetch of the current entity.  The log entry
\* keeps the page that came back.
XbhpSearch ==
    /\ variant = "xbhp"
    /\ pc = "search"
    /\ \E resp \in XbhpListingResponses :
         LET err == Append(stderr, "Searching xBhp")
         IN  /\ log' = Append(log, GetReq("listing", 0, XbhpSearchUrl,
                                          ~RaisesForStatus(resp))
                                   @@ [page |-> resp])
             /\ IF RaisesForStatus(resp)
                THEN OuterExcept(RequestException, err)
                ELSE IF ~Has(resp, {"soup"})
                THEN OuterExcept(OtherException, err)
                ELSE /\ listing' = SliceSeq(FindThreads(resp.soup), ThreadCap)
                     /\ idx' = 1
                     /\ pc' = "thread"
                     /\ stderr' = err
                     /\ UNCHANGED <<bike_idx, cur, stdout, exit_status>>
    /\ UNCHANGED <<variant, argv, results>>

\* Lines 78-105: the head of the loop over thread_elements[:10] and the
\* thread record; an exception is caught by the handler of lines 148-150.
XbhpThread ==
    /\ variant = "xbhp"
    /\ pc = "thread"
    /\ IF idx > Len(listing)
       THEN EndEntity(Append(stderr, "Found threads"))
       ELSE LET b == BuildThread(listing[idx])
            IN  IF b.exc # None
                THEN /\ idx' = idx + 1
                     /\ stderr' = Append(stderr, "Error processing thread")
                     /\ UNCHANGED <<pc, bike_idx, listing, cur, stdout,
                                    exit_status>>
                ELSE IF b.skip
                THEN /\ idx' = idx + 1
                     /\ UNCHANGED <<pc, bike_idx, listing, cur, stdout,
                                    stderr, exit_status>>
                ELSE /\ cur' = b.thread_obj
                     /\ pc' = "sleep"
                     /\ stderr' = Append(stderr, "Fetching thread")
                     /\ UNCHANGED <<bike_idx, listing, idx, stdout,
                                    exit_status>>
    /\ UNCHANGED <<variant, argv, results, log>>

\* The step to the thread fetch without the delay.
XbhpSleepMut ==
    /\ variant = "xbhp"
    /\ pc = "sleep"
    /\ pc' = "fetch"
    /\ UNCHANGED <<variant, argv, bike_idx, listing, idx, cur, results, log,
                   stdout, stderr, exit_status>>

\* Line 106: time.sleep(2).
XbhpSleep ==
    /\ variant = "xbhp"
    /\ pc = "sleep"
    /\ log' = Append(log, Sleep(XbhpDelay))
    /\ pc' = "fetch"
    /\ UNCHANGED <<variant, argv, bike_idx, listing, idx, cur, results,
                   stdout, stderr, exit_status>>

\* A thread step whose failure ends the entity.
XbhpFetchThreadMut ==
    /\ variant = "xbhp"
    /\ pc = "fetch"
    /\ LET resp == XbhpThreadPage(cur.url)
           h == XbhpHandleThreadResponse(resp, results.metadata.total_posts)
           thread_obj == [cur EXCEPT !.posts = h.posts]
       IN  /\ log' = Append(log, GetReq("detail", idx, cur.url,
                                        ~RaisesForStatus(resp)))
           /\ IF h.exc # None
              THEN /\ results' = [results EXCEPT !.metadata.total_posts = h.total]
                   /\ EndEntity(Append(stderr, "Error processing thread"))
              ELSE /\ results' = [results EXCEPT
                                    ![bike_key].threads = Append(@, thread_obj),
                                    !.metadata.total_threads = @ + 1,
                                    !.metadata.total_posts = h.total]
                   /\ stderr' = Append(stderr, "Found posts")
                   /\ idx' = idx + 1
                   /\ cur' = <<>>
                   /\ pc' = "thread"
                   /\ UNCHANGED <<bike_idx, listing, stdout, exit_status>>
    /\ UNCHANGED <<variant, argv>>

\* Lines 108-150: the thread fetch, the post loop and the append of the
\* thread; on an exception the handler of lines 148-150 skips the append but
\* keeps the increments of metadata.total_posts already made.
XbhpFetchThread ==
    /\ variant = "xbhp"
    /\ pc = "fetch"
    /\ LET resp == XbhpThreadPage(cur.url)
           h == XbhpHandleThreadResponse(resp, results.metadata.total_posts)
           thread_obj == [cur EXCEPT !.posts = h.posts]
       IN  /\ log' = Append(log, GetReq("detail", idx, cur.url,
                                        ~RaisesForStatus(resp)))
           /\ IF h.exc # None
              THEN /\ results' = [results EXCEPT !.metadata.total_posts = h.total]
                   /\ stderr' = Append(stderr, "Error processing thread")
              ELSE /\ results' = [results EXCEPT
                                    ![bike_key].threads = Append(@, thread_obj),
                                    !.metadata.total_threads = @ + 1,
                                    !.metadata.total_posts = h.total]
                   /\ stderr' = Append(stderr, "Found posts")
    /\ idx' = idx + 1
    /\ cur' = <<>>
    /\ pc' = "thread"
    /\ UNCHANGED <<variant, argv, bike_idx, listing, stdout, exit_status>>

(***************************************************************************)
(* xbhp_scraper_v2.py: scrape_xbhp_forums (Google site search)             *)
(***************************************************************************)
V2ContentLimit == 500
V2MinPostLen == 20
ResultCap == 5
V2PostCap == 3
V2Delay == 2

GoogleSearchUrl == <<"https://", "www.", "google.com", "/search">>
ForumPath == "xbhp.com/talkies"

\* 'xbhp.com/talkies' in thread_url
ContainsForumPath(url) == \E i \in 1..Len(url) : url[i] = ForumPath

V2ThreadPage(postbody, content_text, postcontent) ==
    [status |-> 200,
     soup |-> [postbody |-> postbody, content_text |-> content_text,
               postcontent |-> postcontent]]

\* The thread page behind each result link.
V2ThreadPageAt(thread_url) ==
    CASE thread_url = ThreadUrl("g1.html")
           -> V2ThreadPage(<<ELong, EShort, ESpaced, EFull>>, <<EPlain>>, <<>>)
      [] thread_url = ThreadUrl("g2.html") -> Http503
      [] thread_url = ThreadUrl("g3.html")
           -> V2ThreadPage(<<>>, <<EPlain, EBlank>>, <<EFull>>)
      [] thread_url = ThreadUrl("g4.html") -> V2ThreadPage(<<>>, <<>>, <<EFull>>)
      [] thread_url = ThreadUrl("g5.html")
           -> V2ThreadPage(<<EPlain, ERaises, EFull>>, <<>>, <<>>)
      [] thread_url = ThreadUrl("g6.html") -> [status |-> 200]
      [] OTHER -> V2ThreadPage(<<>>, <<>>, <<>>)

\* The results (div.g) a Google page may hold.
GResult(href, title) == [a |-> [href |-> href], h3 |-> [text |-> title]]
G1 == GResult(ThreadUrl("g1.html"), <<Run(" ", 1), Run("a", 60)>>)
G2 == GResult(ThreadUrl("g2.html"), <<Run("b", 4)>>)
G3 == GResult(ThreadUrl("g3.html"), <<Run("a", 4)>>)
G4 == GResult(ThreadUrl("g4.html"), <<Run("a", 2), Run("\t", 1), Run("b", 2)>>)
G5 == GResult(ThreadUrl("g5.html"), <<Run("a", 5)>>)
G6 == GResult(ThreadUrl("g6.html"), <<Run("a", 6)>>)
GForeign == GResult(<<"https://", "www.", "team-bhp.com", "/forum/1.html">>,
                    <<Run("b", 8)>>)
GNoLink == [h3 |-> [text |-> <<Run("a", 7)>>]]
GNoHref == [a |-> [name |-> "a"], h3 |-> [text |-> <<Run("a", 8)>>]]
GNoH3 == [a |-> [href |-> ThreadUrl("g1.html")]]
GNoTitle == GResult(ThreadUrl("g1.html"), <<Run(" ", 1)>>)
GRaises == [raises |-> OtherException]

GoogleResults == {G1, G2, G5, GForeign}

\* A result page with more results than the cap.
GoogleLongListing ==
    <<GNoLink, G3, GRaises, G6, GNoH3, G4, GNoHref, GNoTitle>>

\* A result page with results of another site among its first five.
GoogleForeignListing == <<GForeign, G1, GForeign, G2, GForeign, G4>>

GooglePage(g) == [status |-> 200, soup |-> [g |-> g]]

GoogleListingResponses ==
    {Http503, [status |-> 200], GooglePage(GoogleLongListing),
     GooglePage(GoogleForeignListing),
     GooglePage(<<GNoHref, GNoTitle, G4>>)}
    \cup {GooglePage(s) : s \in SeqsUpTo(GoogleResults, MaxListing)}

\* Lines 106-112: div.postbody, else div.js-post__content-text, else
\* blockquote.postcontent.
V2FindPosts(soup) ==
    IF soup.postbody # <<>> THEN soup.postbody
    ELSE IF soup.content_text # <<>> THEN soup.content_text
    ELSE soup.postcontent

\* Lines 72-94: the thread record of one result; "skip" is `continue`.
V2BuildThread(result) ==
    IF Has(result, {"raises"}) THEN [exc |-> result.raises]
    ELSE IF ~Has(result, {"a"}) THEN [exc |-> None, skip |-> TRUE]
    ELSE LET thread_url == Get(result.a, "href", <<>>)
         IN  IF thread_url = <<>> \/ ~ContainsForumPath(thread_url)
             THEN [exc |-> None, skip |-> TRUE]
             ELSE IF ~Has(result, {"h3"}) THEN [exc |-> None, skip |-> TRUE]
             ELSE LET thread_title == clean_text(result.h3.text)
                  IN  IF thread_title = <<>>
                      THEN [exc |-> None, skip |-> TRUE]
                      ELSE [exc |-> None, skip |-> FALSE,
                            thread_obj |-> [title |-> thread_title,
                                            url |-> thread_url,
                                            posts |-> <<>>]]

\* Lines 114-127: the loop over post_elements[:3].
RECURSIVE V2ProcessPosts(_, _)
V2ProcessPosts(elems, acc) ==
    IF elems = <<>> THEN acc
    ELSE LET post_elem == Head(elems)
         IN  IF Has(post_elem, {"raises"})
             THEN [acc EXCEPT !.exc = post_elem.raises]
             ELSE LET post_text == clean_text(post_elem.text)
                  IN  IF post_text = <<>> \/ TextLen(post_text) < V2MinPostLen
                      THEN V2ProcessPosts(Tail(elems), acc)
                      ELSE LET post_obj ==
                                 [author |-> "xBhp User",
                                  content |-> TextSlice(post_text, V2ContentLimit),
                                  timestamp |-> None]
                           IN  V2ProcessPosts(Tail(elems),
                                 [acc EXCEPT !.posts = Append(@, post_obj),
                                             !.total = @ + 1])

\* Lines 101-127: what the thread page response does to the thread's posts
\* and to the total.
V2HandleThreadResponse(resp, total) ==
    LET acc0 == [posts |-> <<>>, total |-> total, exc |-> None]
    IN  IF RaisesForStatus(resp) THEN [acc0 EXCEPT !.exc = RequestException]
        ELSE IF ~Has(resp, {"soup"}) THEN [acc0 EXCEPT !.exc = OtherException]
        ELSE V2ProcessPosts(SliceSeq(V2FindPosts(resp.soup), V2PostCap), acc0)

\* Lines 50-67: the listing fetch of the current entity; listing holds
\* search_results, every div.g of the page.
V2Search ==
    /\ variant = "xbhp_v2"
    /\ pc = "search"
    /\ \E resp \in GoogleListingResponses :
         LET err == Append(stderr, "Searching xBhp via Google")
         IN  /\ log' = Append(log, GetReq("listing", 0, GoogleSearchUrl,
                                          ~RaisesForStatus(resp)))
             /\ IF RaisesForStatus(resp)
                THEN OuterExcept(RequestException, err)
                ELSE IF ~Has(resp, {"soup"})
                THEN OuterExcept(OtherException, err)
                ELSE /\ listing' = resp.soup.g
                     /\ idx' = 1
                     /\ pc' = "thread"
                     /\ stderr' = err
                     /\ UNCHANGED <<bike_idx, cur, stdout, exit_status>>
    /\ UNCHANGED <<variant, argv, results>>

\* Lines 69-97: the head of the loop over search_results[:5] and the thread
\* record; an exception is caught by the handler of lines 139-141.
V2Result ==
    /\ variant = "xbhp_v2"
    /\ pc = "thread"
    /\ IF idx > Len(SliceSeq(listing, ResultCap))
       THEN EndEntity(Append(stderr, "Found threads"))
       ELSE LET b == V2BuildThread(listing[idx])
            IN  IF b.exc # None
                THEN /\ idx' = idx + 1
                     /\ stderr' = Append(stderr, "Error processing result")
                     /\ UNCHANGED <<pc, bike_idx, listing, cur, stdout,
                                    exit_status>>
                ELSE IF b.skip
                THEN /\ idx' = idx + 1
                     /\ UNCHANGED <<pc, bike_idx, listing, cur, stdout,
                                    stderr, exit_status>>
                ELSE /\ cur' = b.thread_obj
                     /\ pc' = "sleep"
                     /\ stderr' = Append(stderr, "Fetching thread")
                     /\ UNCHANGED <<bike_idx, listing, idx, stdout,
                                    exit_status>>
    /\ UNCHANGED <<variant, argv, results, log>>

\* Line 98: time.sleep(2).
V2Sleep ==
    /\ variant = "xbhp_v2"
    /\ pc = "sleep"
    /\ log' = Append(log, Sleep(V2Delay))
    /\ pc' = "fetch"
    /\ UNCHANGED <<variant, argv, bike_idx, listing, idx, cur, results,
                   stdout, stderr, exit_status>>

\* A thread step that drops the thread when its page fails.
V2FetchThreadMut ==
    /\ variant = "xbhp_v2"
    /\ pc = "fetch"
    /\ LET resp == V2ThreadPageAt(cur.url)
           h == V2HandleThreadResponse(resp, results.metadata.total_posts)
           thread_obj == [cur EXCEPT !.posts = h.posts]
       IN  /\ log' = Append(log, GetReq("detail", idx, cur.url,
                                        ~RaisesForStatus(resp)))
           /\ results' = IF h.exc # None THEN results
                         ELSE [results EXCEPT
                                 ![bike_key].threads = Append(@, thread_obj),
                                 !.metadata.total_threads = @ + 1,
                                 !.metadata.total_posts = h.total]
           /\ stderr' = Append(stderr, "Found posts")
    /\ idx' = idx + 1
    /\ cur' = <<>>
    /\ pc' = "thread"
    /\ UNCHANGED <<variant, argv, bike_idx, listing, stdout, exit_status>>

\* Lines 100-137: the thread fetch and the post loop inside the inner try,
\* whose handler catches everything, and the append of the thread.
V2FetchThread ==
    /\ variant = "xbhp_v2"
    /\ pc = "fetch"
    /\ LET resp == V2ThreadPageAt(cur.url)
           h == V2HandleThreadResponse(resp, results.metadata.total_posts)
           thread_obj == [cur EXCEPT !.posts = h.posts]
       IN  /\ log' = Append(log, GetReq("detail", idx, cur.url,
                                        ~RaisesForStatus(resp)))
           /\ results' = [results EXCEPT
                            ![bike_key].threads = Append(@, thread_obj),
                            !.metadata.total_threads = @ + 1,
                            !.metadata.total_posts = h.total]
           /\ stderr' = Append(stderr, IF h.exc # None
                                       THEN "Could not fetch thread content"
                                       ELSE "Found posts")
    /\ idx' = idx + 1
    /\ cur' = <<>>
    /\ pc' = "thread"
    /\ UNCHANGED <<variant, argv, bike_idx, listing, stdout, exit_status>>

(***************************************************************************)
(* xbhp_scraper_fallback.py: scrape_xbhp_forums (mock data)                *)
(***************************************************************************)
MockUrl(n) == XbhpBase \o <<"motorcycles/mock-thread-", n, ".html">>
MockPost(n, content) ==
    [author |-> "xBhp Member " \o n, content |-> content, timestamp |-> None]

\* Lines 27-99: the literal the function builds.
MockResults(bike1, bike2) ==
    [bike1 |->
       [name |-> bike1,
        threads |->
          <<[title |-> <<bike1, " - Ownership Review and Discussion">>,
             url |-> MockUrl("1"),
             posts |-> <<MockPost("1", <<"Picked up the ", bike1, " last month.">>),
                         MockPost("2", <<"I've been riding the ", bike1,
                                         " for 6 months now.">>)>>],
            [title |-> <<bike1, " vs Competition - Buyer's Guide">>,
             url |-> MockUrl("2"),
             posts |-> <<MockPost("3", <<"For anyone considering the ", bike1,
                                         ", key things to note">>)>>]>>],
     bike2 |->
       [name |-> bike2,
        threads |->
          <<[title |-> <<bike2, " - Long Term Ownership Thread">>,
             url |-> MockUrl("3"),
             posts |-> <<MockPost("4", <<"The ", bike2,
                                         " has been my daily commuter">>),
                         MockPost("5", <<"Just completed 10,000 km on my ",
                                         bike2, ".">>)>>],
            [title |-> <<bike2, " Common Issues and Solutions">>,
             url |-> MockUrl("4"),
             posts |-> <<MockPost("6", <<"My ", bike2,
                                         " had some initial electrical issues">>)>>]>>],
     metadata |->
       [source |-> "xbhp_mock",
        note |-> "Mock data - xBhp scraping requires API access for production use",
        total_threads |-> 4,
        total_posts |-> 7]]

\* Lines 23-104: the whole function.
MockScrape ==
    /\ variant = "xbhp_fallback"
    /\ pc = "call"
    /\ results' = MockResults(argv[1], argv[2])
    /\ stderr' = stderr \o <<"Searching xBhp", "Searching xBhp",
                             "Generated mock data", "Generated mock data">>
    /\ pc' = "return"
    /\ UNCHANGED <<variant, argv, bike_idx, listing, idx, cur, log, stdout,
                   exit_status>>

(***************************************************************************)
(* The __main__ block, the same in the four scripts.                       *)
(***************************************************************************)
\* `if len(sys.argv) != 3` (sys.argv[0] is the script), else the call.
Main ==
    /\ pc = "main"
    /\ IF Len(argv) # 2
       THEN /\ stdout' = Append(stdout, UsageJson)
            /\ exit_status' = 1
            /\ pc' = "exited"
       ELSE /\ pc' = "call"
            /\ UNCHANGED <<stdout, exit_status>>
    /\ UNCHANGED <<variant, argv, bike_idx, listing, idx, cur, results, log,
                   stderr>>

\* The head of each live scraper: the empty document (lines 23-33 of
\* reddit_scraper.py, 33-42 of xbhp_scraper.py and xbhp_scraper_v2.py).
Start ==
    /\ pc = "call"
    /\ variant # "xbhp_fallback"
    /\ results' = IF variant = "reddit"
                  THEN RedditInitResults(argv[1], argv[2])
                  ELSE XbhpInitResults(argv[1], argv[2])
    /\ bike_idx' = 1
    /\ pc' = "search"
    /\ UNCHANGED <<variant, argv, listing, idx, cur, log, stdout, stderr,
                   exit_status>>

\* `return json.dumps(results, indent=2)` and `print(result)`.
Return ==
    /\ pc = "return"
    /\ stdout' = Append(stdout, JsonDumps(results))
    /\ exit_status' = 0
    /\ pc' = "exited"
    /\ UNCHANGED <<variant, argv, bike_idx, listing, idx, cur, results, log,
                   stderr>>

Init ==
    /\ variant \in Variants
    /\ argv \in ArgVectors
    /\ pc = "main"
    /\ bike_idx = 1
    /\ listing = <<>>
    /\ idx = 1
    /\ cur = <<>>
    /\ results = <<>>
    /\ log = <<>>
    /\ stdout = <<>>
    /\ stderr = <<>>
    /\ exit_status = -1

Next ==
    \/ Main
    \/ Start
    \/ RedditSearch
    \/ RedditPost
    \/ RedditSleep
    \/ RedditComments
    \/ XbhpSearch
    \/ XbhpThread
    \/ XbhpSleep
    \/ XbhpFetchThread
    \/ V2Search
    \/ V2Result
    \/ V2Sleep
    \/ V2FetchThread
    \/ MockScrape
    \/ Return

Spec == Init /\ [][Next]_vars

(***************************************************************************)
(* Properties.  The document a scraper returns is `results` once the       *)
(* function is at its return statement.                                    *)
(***************************************************************************)
Live == {"reddit", "xbhp", "xbhp_v2"}
BikeKeys == {"bike1", "bike2"}

Returned == pc = "return"

\* The item sequence of an entity: posts (Reddit) or threads (xBhp).
Items(b) == IF variant = "reddit" THEN results[b].posts ELSE results[b].threads

\* The nested sequence of an item: comments (Reddit) or posts (xBhp).
Nested(item) == IF variant = "reddit" THEN item.comments ELSE item.posts

RECURSIVE NestedCount(_)
NestedCount(items) ==
    IF items = <<>> THEN 0
    ELSE Len(Nested(Head(items))) + NestedCount(Tail(items))

ItemTotal ==
    IF variant = "reddit" THEN results.metadata.total_posts
    ELSE results.metadata.total_threads

NestedTotal ==
    IF variant = "reddit" THEN results.metadata.total_comments
    ELSE results.metadata.total_posts

Gets == {i \in 1..Len(log) : log[i].op = "get"}
ListingGets(b) == {i \in Gets : log[i].kind = "listing" /\ log[i].bike = b}
DetailGets(b) == {i \in Gets : log[i].kind = "detail" /\ log[i].bike = b}

\* C1: in the document a live scraper returns, the item total of the metadata
\* is the number of items present in bike1 and bike2 together, and the nested
\* total is the number of comments / forum posts present inside those items.
C1_TotalsMatchItems ==
    (variant \in Live /\ Returned) =>
        /\ ItemTotal = Len(Items("bike1")) + Len(Items("bike2"))
        /\ NestedTotal = NestedCount(Items("bike1")) + NestedCount(Items("bike2"))

\* The keys of the document and of its entities.
DocumentShape ==
    /\ DOMAIN results = {"bike1", "bike2", "metadata"}
    /\ \A b \in BikeKeys :
         /\ DOMAIN results[b] = {"name", IF variant = "reddit" THEN "posts" ELSE "threads"}
         /\ DOMAIN Items(b) = 1..Len(Items(b))
    /\ results.bike1.name = argv[1]
    /\ results.bike2.name = argv[2]

\* The guards of the actions: the places a run can be at before its exit.
CanStep ==
    \/ pc \in {"main", "return"}
    \/ pc = "call" /\ variant \in Variants
    \/ pc = "search" /\ variant \in Live
    \/ pc \in {"post", "comments"} /\ variant = "reddit"
    \/ pc \in {"thread", "fetch"} /\ variant \in {"xbhp", "xbhp_v2"}
    \/ pc = "sleep" /\ variant \in Live

\* C2: a two-argument run ends by returning a document with bike1, bike2 and
\* metadata, each entity with the caller's name and an item sequence; no
\* failure leaves the function (the run never stops before its exit, and
\* exits with status 0 and the document on standard output); and when every
\* fetch of a live scraper failed, both item sequences are empty and every
\* total is 0.
C2_AlwaysReturnsDocument ==
    Len(argv) = 2 =>
        /\ pc # "exited" => CanStep
        /\ pc = "exited" =>
             /\ exit_status = 0
             /\ stdout = <<JsonDumps(results)>>
             /\ \A i \in 1..Len(stderr) : stderr[i] # ErrorJson
        /\ pc \in {"return", "exited"} =>
             /\ DocumentShape
             /\ (variant \in Live /\ \A i \in Gets : ~log[i].ok) =>
                  /\ Items("bike1") = <<>>
                  /\ Items("bike2") = <<>>
                  /\ ItemTotal = 0
                  /\ NestedTotal = 0

C2_Witness ==
    /\ pc = "exited"
    /\ variant \in Live
    /\ Gets # {}
    /\ \A i \in Gets : ~log[i].ok

\* C3: no comment in a document the Reddit scraper returns has the author
\* '[deleted]' or 'AutoModerator'.
C3_NoDeletedOrAutoModAuthors ==
    (variant = "reddit" /\ Returned) =>
        \A b \in BikeKeys : \A i \in 1..Len(results[b].posts) :
            \A j \in 1..Len(results[b].posts[i].comments) :
                results[b].posts[i].comments[j].author
                    \notin {"[deleted]", "AutoModerator"}

\* C4: each entity of a document the Reddit scraper returns holds at most 10
\* posts, whatever number of children the listing response has.
C4_AtMostTenPosts ==
    (variant = "reddit" /\ Returned) =>
        \A b \in BikeKeys : Len(results[b].posts) <= 10

\* p is a prefix of the text t.
RECURSIVE IsTextPrefix(_, _)
IsTextPrefix(p, t) ==
    \/ p = <<>>
    \/ /\ t # <<>>
       /\ Head(p).c = Head(t).c
       /\ \/ Head(p).n = Head(t).n /\ IsTextPrefix(Tail(p), Tail(t))
          \/ Len(p) = 1 /\ Head(p).n <= Head(t).n

Elems(s) == {s[i] : i \in 1..Len(s)}

\* The source texts: the selftext of the search match with a post's id, the
\* body of the comment entry with a comment's id, and the cleaned text
\* (post_text) of the post elements of a thread's page.
SelftextSources(post) ==
    {Get(c.data, "selftext", EmptyText) :
       c \in {c \in AllRedditChildren : Get(c.data, "id", None) = post.id}}

BodySources(comment) ==
    {Get(c.data, "body", EmptyText) :
       c \in {c \in AllComments : Get(c.data, "id", None) = comment.id}}

PageElems(thread) ==
    LET soup == IF variant = "xbhp" THEN XbhpThreadPage(thread.url).soup
                ELSE V2ThreadPageAt(thread.url).soup
    IN  UNION {Elems(soup[k]) : k \in DOMAIN soup}

ContentSources(thread) ==
    {clean_text(e.text) : e \in {e \in PageElems(thread) : Has(e, {"text"})}}

\* C5: in a returned document every Reddit selftext has at most 500
\* characters and every Reddit comment body at most 300, every xBhp post
\* content (direct and Google variant) at most 500, and each is a prefix of
\* its source text (for xBhp the text the record is built from, post_text).
C5_TruncationBudgets ==
    (variant \in Live /\ Returned) =>
        \A b \in BikeKeys : \A i \in 1..Len(Items(b)) :
            LET item == Items(b)[i]
            IN  IF variant = "reddit"
                THEN /\ TextLen(item.selftext) <= 500
                     /\ \E t \in SelftextSources(item) :
                          IsTextPrefix(item.selftext, t)
                     /\ \A j \in 1..Len(item.comments) :
                          /\ TextLen(item.comments[j].body) <= 300
                          /\ \E t \in BodySources(item.comments[j]) :
                               IsTextPrefix(item.comments[j].body, t)
                ELSE \A j \in 1..Len(item.posts) :
                          /\ TextLen(item.posts[j].content) <= 500
                          /\ \E t \in ContentSources(item) :
                               IsTextPrefix(item.posts[j].content, t)

\* A returned Reddit document with a selftext cut from 501 to 500 characters
\* and a comment body cut from 301 to 300.
C5_Witness ==
    /\ variant = "reddit"
    /\ Returned
    /\ \E b \in BikeKeys : \E i \in 1..Len(results[b].posts) :
         LET post == results[b].posts[i]
         IN  /\ TextLen(post.selftext) = 500
             /\ \E t \in SelftextSources(post) : TextLen(t) = 501
             /\ \E j \in 1..Len(post.comments) :
                  /\ TextLen(post.comments[j].body) = 300
                  /\ \E t \in BodySources(post.comments[j]) : TextLen(t) = 301

\* C6: started with an argument count other than two, the command-line form
\* scrapes nothing, writes the usage object to the error stream and nothing
\* to standard output, and exits with status 1.
C6_UsageOnErrorStream ==
    (pc = "exited" /\ Len(argv) # 2) =>
        /\ log = <<>>
        /\ results = <<>>
        /\ exit_status = 1
        /\ stderr = <<UsageJson>>
        /\ stdout = <<>>

\* C7: in the document of the mock generator, metadata.total_threads is the
\* number of threads present across bike1 and bike2 and metadata.total_posts
\* the number of posts present across those threads.
C7_MockTotalsMatch ==
    (variant = "xbhp_fallback" /\ Returned) =>
        /\ ItemTotal = Len(Items("bike1")) + Len(Items("bike2"))
        /\ NestedTotal = NestedCount(Items("bike1")) + NestedCount(Items("bike2"))

\* C8: for any pair of names the mock generator issues no request and
\* returns a document with exactly 2 threads for bike1 and 2 for bike2,
\* 7 posts in total (in the threads, and as metadata.total_posts) and
\* metadata.source "xbhp_mock", each entity carrying the name the caller
\* supplied.
C8_MockScenario ==
    (variant = "xbhp_fallback" /\ Returned) =>
        /\ log = <<>>
        /\ Len(results.bike1.threads) = 2
        /\ Len(results.bike2.threads) = 2
        /\ results.metadata.total_posts = 7
        /\ NestedCount(results.bike1.threads) + NestedCount(results.bike2.threads) = 7
        /\ results.metadata.source = "xbhp_mock"
        /\ results.bike1.name = argv[1]
        /\ results.bike2.name = argv[2]

\* C9: in a live scraper, an entity whose listing fetch failed has an empty
\* item sequence and no detail fetch; the failing step leaves the document
\* (totals and the other entity's items) as it was and moves on to the next
\* entity, so bike2's listing is still fetched after a failure for bike1.
ListingFailed(b) == \E i \in ListingGets(b) : ~log[i].ok

ListingFailsNow ==
    /\ pc = "search"
    /\ Len(log') = Len(log) + 1
    /\ log'[Len(log')].kind = "listing"
    /\ ~log'[Len(log')].ok

C9_EntityInv ==
    variant \in Live =>
        \A b \in BikeKeys :
            ListingFailed(b) =>
                /\ Items(b) = <<>>
                /\ DetailGets(b) = {}
                /\ (b = "bike1" /\ pc \in {"return", "exited"}) =>
                     ListingGets("bike2") # {}

C9_FailingStep ==
    ListingFailsNow =>
        /\ results' = results
        /\ IF bike_idx = 1
           THEN pc' = "search" /\ bike_idx' = 2
           ELSE pc' = "return"

C9_ListingFailureIsPerEntity == []C9_EntityInv /\ [][C9_FailingStep]_vars

C9_Witness ==
    /\ variant \in Live
    /\ Returned
    /\ ListingFailed("bike1")
    /\ Items("bike2") # <<>>
    /\ NestedCount(Items("bike2")) > 0

\* C10: in a live scraper every detail fetch is immediately preceded by the
\* mandated delay: 1 unit before a Reddit comment page, 2 units before an
\* xBhp thread page.
C10_DelayBeforeDetailFetch ==
    variant \in Live =>
        \A i \in Gets :
            log[i].kind = "detail" =>
                /\ i > 1
                /\ log[i - 1] = Sleep(IF variant = "reddit" THEN 1 ELSE 2)

\* Two detail fetches of one entity, the earlier of which failed.
C10_Witness ==
    /\ variant \in Live
    /\ \E b \in BikeKeys : \E i, j \in DetailGets(b) : i < j /\ ~log[i].ok

\* The comment page of a post cannot be used: the fetch fails, or the
\* response has no second element with data.children.
CommentsUnusable(comments_url) ==
    LET resp == RedditCommentsPage(comments_url)
    IN  \/ RaisesForStatus(resp)
        \/ Len(resp.json) < 2
        \/ ~Has(resp.json[2], {"data"})
        \/ ~Has(resp.json[2].data, {"children"})

\* The ids of the comment entries the page of a post holds.
PageCommentIds(comments_url) ==
    LET resp == RedditCommentsPage(comments_url)
    IN  IF CommentsUnusable(comments_url) THEN {}
        ELSE {Get(Get(e, "data", <<>>), "id", None) :
                e \in Elems(resp.json[2].data.children)}

\* Inside the loop over a listing, every child before the current one is in
\* the entity, in listing order.
C11_AllEarlierPostsKept ==
    (variant = "reddit" /\ pc \in {"post", "sleep", "comments"}) =>
        /\ Len(results[bike_key].posts) = idx - 1
        /\ \A k \in 1..(idx - 1) :
             results[bike_key].posts[k].id = listing[k].data.id

\* The comment step of a post appends the post, whatever its comment page
\* does, and goes on to the next child of the same listing.
C11_CommentStep ==
    (variant = "reddit" /\ pc = "comments") =>
        LET posts == results'[bike_key].posts
            last == posts[Len(posts)]
        IN  /\ Len(posts) = Len(results[bike_key].posts) + 1
            /\ SubSeq(posts, 1, Len(posts) - 1) = results[bike_key].posts
            /\ last.id = cur.post_obj.id
            /\ CommentsUnusable(cur.comments_url) => last.comments = <<>>
            /\ \A j \in 1..Len(last.comments) :
                 last.comments[j].id \in PageCommentIds(cur.comments_url)
            /\ results'.metadata.total_posts = results.metadata.total_posts + 1
            /\ pc' = "post"
            /\ idx' = idx + 1
            /\ listing' = listing
            /\ bike_idx' = bike_idx
            /\ exit_status' = exit_status

\* C11: in the Reddit scraper a post whose comment page cannot be fetched or
\* parsed (for example a second element lacking data.children) is still
\* appended to its entity, with an empty or partial comments sequence; the
\* failure stays inside that post, and the remaining posts of the listing
\* are still processed.
C11_CommentFailureIsPerPost ==
    []C11_AllEarlierPostsKept /\ [][C11_CommentStep]_vars

\* A returned document in which a post whose comment page lacks
\* data.children, and a post whose comment loop raised half way, are each
\* followed by a later post of the same listing.
C11_Witness ==
    /\ variant = "reddit"
    /\ Returned
    /\ \E b \in BikeKeys : \E i, j \in 1..Len(results[b].posts) :
         /\ i < j
         /\ results[b].posts[i].id = "p3"
         /\ results[b].posts[i].comments = <<>>
         /\ results[b].posts[j].comments # <<>>
    /\ \E b \in BikeKeys : \E i, j \in 1..Len(results[b].posts) :
         /\ i < j
         /\ results[b].posts[i].id = "p4"
         /\ Len(results[b].posts[i].comments) = 1

\* The filter of the comment loop: a comment entry by an author other than
\* the two excluded ones.
Survives(e) ==
    /\ Get(e, "kind", None) = "t1"
    /\ Get(Get(e, "data", <<>>), "author", None) \notin {"[deleted]", "AutoModerator"}

\* Every comment entry of the listing has the keys the record is built from.
WellFormedComments(entries) ==
    \A k \in 1..Len(entries) :
        Get(entries[k], "kind", None) = "t1" =>
            /\ Has(entries[k], {"data"})
            /\ Has(entries[k].data, {"id", "score", "created_utc"})

Ids(s) == [k \in 1..Len(s) |-> s[k].id]

\* C12: in a document the Reddit scraper returns, the comments of a post are
\* the first 5 entries, in source order, of its comment listing after
\* filtering (kind 't1', author neither '[deleted]' nor 'AutoModerator'), so
\* entries after the fifth raw one are kept while fewer than 5 survived.
C12_FirstFiveSurvivors ==
    (variant = "reddit" /\ Returned) =>
        \A b \in BikeKeys : \A i \in 1..Len(results[b].posts) :
            LET post == results[b].posts[i]
                comments_url == CommentsUrl(post.id)
                children == RedditCommentsPage(comments_url).json[2].data.children
                survivors == SelectSeq(children, Survives)
            IN  (~CommentsUnusable(comments_url) /\ WellFormedComments(children)) =>
                    Ids(post.comments) =
                        [k \in 1..Min(5, Len(survivors)) |-> survivors[k].data.id]

\* The link target of a result contains the forum's path segment.
HasForumLink(result) ==
    /\ Has(result, {"a"})
    /\ ContainsForumPath(Get(result.a, "href", <<>>))

\* The result has a heading with a title.
HasTitle(result) ==
    /\ Has(result, {"h3"})
    /\ clean_text(result.h3.text) # <<>>

\* The loop over the results of the current entity has ended.
V2LoopDone ==
    /\ variant = "xbhp_v2"
    /\ pc = "thread"
    /\ idx > Len(listing) \/ idx > 5

\* C13: in the Google variant the threads of an entity come from the first 5
\* results, in page order, among those whose link target contains
\* 'xbhp.com/talkies' (other results do not count towards the 5), and every
\* thread URL of the document contains 'xbhp.com/talkies'.
C13_FirstFiveForumResults ==
    /\ V2LoopDone =>
         LET considered == SliceSeq(SelectSeq(listing, HasForumLink), 5)
             titled == SelectSeq(considered, HasTitle)
             threads == results[bike_key].threads
         IN  [k \in 1..Len(threads) |-> threads[k].url]
                 = [k \in 1..Len(titled) |-> titled[k].a.href]
    /\ (variant = "xbhp_v2" /\ Returned) =>
         \A b \in BikeKeys : \A k \in 1..Len(results[b].threads) :
             ContainsForumPath(results[b].threads[k].url)

\* The first of the candidate element lists, in order, that is not empty.
RECURSIVE FirstNonEmpty(_)
FirstNonEmpty(candidates) ==
    IF candidates = <<>> THEN <<>>
    ELSE IF Head(candidates) # <<>> THEN Head(candidates)
    ELSE FirstNonEmpty(Tail(candidates))

\* The element lists of a page under the locators, in priority order.
ThreadLocators(soup) == <<soup.threadtitle, soup.thread_title>>
PostLocators(soup) ==
    IF variant = "xbhp" THEN <<soup.postbody, soup.post_message>>
    ELSE <<soup.postbody, soup.content_text, soup.postcontent>>

\* The post elements that become posts: cleaned text of 20 characters or more.
Qualifies(post_elem) == TextLen(clean_text(post_elem.text)) >= 20

NoneRaises(elems) == \A k \in 1..Len(elems) : ~Has(elems[k], {"raises"})

\* The page of the listing fetch of the current entity.
SearchPageSeen == log[CHOOSE i \in ListingGets(bike_key) : TRUE].page

\* C14: the elements used are those of the first locator, in priority order,
\* that yields at least one element, never mixed with those of another
\* locator: for the thread entries of the direct variant (div.threadtitle,
\* then a#thread_title_N), and for the post elements of a thread page
\* (direct: div.postbody, then div#post_message_N; Google variant:
\* div.postbody, then div.js-post__content-text, then
\* blockquote.postcontent).
C14_FirstNonEmptyLocatorWins ==
    /\ (variant = "xbhp" /\ pc \in {"thread", "sleep", "fetch"}) =>
         listing = SliceSeq(FirstNonEmpty(ThreadLocators(SearchPageSeen.soup)), 10)
    /\ (variant \in {"xbhp", "xbhp_v2"} /\ Returned) =>
         \A b \in BikeKeys : \A i \in 1..Len(results[b].threads) :
             LET thread == results[b].threads[i]
                 page == IF variant = "xbhp" THEN XbhpThreadPage(thread.url)
                         ELSE V2ThreadPageAt(thread.url)
                 used == SliceSeq(FirstNonEmpty(PostLocators(page.soup)),
                                  IF variant = "xbhp" THEN 5 ELSE 3)
                 kept == SelectSeq(used, Qualifies)
             IN  (Has(page, {"soup"}) /\ NoneRaises(used)) =>
                     [k \in 1..Len(thread.posts) |-> thread.posts[k].content]
                         = [k \in 1..Len(kept) |->
                              TextSlice(clean_text(kept[k].text), 500)]

\* A returned document of the direct variant with an entity whose threads
\* came from the fallback thread locator, the posts of one of them from the
\* primary post locator of a page that also has fallback elements, and with a
\* thread whose post came from the fallback post locator.
C14_Witness ==
    /\ variant = "xbhp"
    /\ Returned
    /\ \E b \in BikeKeys : \E i \in 1..Len(results[b].threads) :
         /\ results[b].threads[i].title = <<Run("a", 3)>>
         /\ results[b].threads[i].url = ThreadUrl("t1.html")
         /\ Len(results[b].threads[i].posts) = 3
    /\ \E b \in BikeKeys : \E i \in 1..Len(results[b].threads) :
         /\ results[b].threads[i].url = ThreadUrl("t4.html")
         /\ Len(results[b].threads[i].posts) = 1

\* When the loop over an entity's results has ended, every result among the
\* first five that has a forum link and a title has its thread in the entity.
C15_AllResultsProcessed ==
    V2LoopDone =>
        LET titled == SelectSeq(SelectSeq(SliceSeq(listing, 5), HasForumLink),
                                HasTitle)
            threads == results[bike_key].threads
        IN  [k \in 1..Len(threads) |-> threads[k].url]
                = [k \in 1..Len(titled) |-> titled[k].a.href]

\* The thread step appends the thread and counts it, whatever its page does,
\* and goes on to the next result; when the fetch of the page fails the
\* thread has no posts and total_posts stays as it was.
C15_ThreadStep ==
    (variant = "xbhp_v2" /\ pc = "fetch") =>
        LET threads == results'[bike_key].threads
            last == threads[Len(threads)]
        IN  /\ Len(threads) = Len(results[bike_key].threads) + 1
            /\ SubSeq(threads, 1, Len(threads) - 1) = results[bike_key].threads
            /\ last.title = cur.title
            /\ last.url = cur.url
            /\ results'.metadata.total_threads = results.metadata.total_threads + 1
            /\ RaisesForStatus(V2ThreadPageAt(cur.url)) =>
                 /\ last.posts = <<>>
                 /\ results'.metadata.total_posts = results.metadata.total_posts
            /\ pc' = "thread"
            /\ idx' = idx + 1
            /\ listing' = listing
            /\ bike_idx' = bike_idx

\* C15: in the Google variant a thread whose page fails to fetch is still
\* appended to its entity with its title, its URL and no posts;
\* total_threads counts it, total_posts does not, and the results after it
\* are still processed.
C15_FailedThreadIsKept ==
    []C15_AllResultsProcessed /\ [][C15_ThreadStep]_vars

\* A returned document in which the thread of a page answering 503 is kept
\* without posts and followed by the thread of a later result.
C15_Witness ==
    /\ variant = "xbhp_v2"
    /\ Returned
    /\ \E b \in BikeKeys : \E i, j \in 1..Len(results[b].threads) :
         /\ i < j
         /\ results[b].threads[i].url = ThreadUrl("g2.html")
         /\ RaisesForStatus(V2ThreadPageAt(results[b].threads[i].url))
         /\ results[b].threads[i].posts = <<>>
         /\ results[b].threads[j].posts # <<>>

\* The detail fetch or the processing of the thread page fails.
ThreadFails(thread_url) ==
    LET page == XbhpThreadPage(thread_url)
    IN  \/ RaisesForStatus(page)
        \/ ~Has(page, {"soup"})
        \/ ~NoneRaises(SliceSeq(FirstNonEmpty(PostLocators(page.soup)), 5))

\* The link and the URL of a thread entry.
LinkOf(thread_elem) ==
    IF thread_elem.name = "div" THEN thread_elem.a ELSE thread_elem

UrlOf(thread_elem) ==
    LET href == Get(LinkOf(thread_elem), "href", <<>>)
    IN  IF StartsWithHttp(href) THEN href ELSE XbhpBase \o href

\* A thread entry that yields a thread: it has a link with a title, and its
\* page is fetched and processed without failure.
ThreadKept(thread_elem) ==
    /\ ~Has(thread_elem, {"raises"})
    /\ thread_elem.name = "div" => Has(thread_elem, {"a"})
    /\ clean_text(LinkOf(thread_elem).text) # <<>>
    /\ ~ThreadFails(UrlOf(thread_elem))

\* At the head of the loop over the thread entries, the threads of the
\* entity are those of the entries before the current one that did not
\* fail, in order: no entry was left out because an earlier one failed.
C16_AllThreadsProcessed ==
    (variant = "xbhp" /\ pc = "thread") =>
        LET kept == SelectSeq(SubSeq(listing, 1, idx - 1), ThreadKept)
            threads == results[bike_key].threads
        IN  /\ idx <= Len(listing) + 1
            /\ Len(listing) <= 10
            /\ [k \in 1..Len(threads) |-> threads[k].url]
                  = [k \in 1..Len(kept) |-> UrlOf(kept[k])]

\* The thread step of a thread that fails leaves the threads of the entity
\* and total_threads as they were and goes on to the next entry.
C16_ThreadStep ==
    (variant = "xbhp" /\ pc = "fetch") =>
        /\ ThreadFails(cur.url) =>
             /\ results'[bike_key].threads = results[bike_key].threads
             /\ results'.metadata.total_threads = results.metadata.total_threads
        /\ ~ThreadFails(cur.url) =>
             /\ Len(results'[bike_key].threads) = Len(results[bike_key].threads) + 1
             /\ results'.metadata.total_threads = results.metadata.total_threads + 1
        /\ pc' = "thread"
        /\ idx' = idx + 1
        /\ listing' = listing
        /\ bike_idx' = bike_idx
        /\ exit_status' = exit_status

\* C16: in the direct xBhp scraper a thread whose detail fetch or processing
\* fails is skipped (not appended, not counted in total_threads); the entity
\* is not aborted, and every remaining thread entry within the cap of 10 is
\* still processed.
C16_FailedThreadIsSkipped ==
    []C16_AllThreadsProcessed /\ [][C16_ThreadStep]_vars

\* A returned document with an entity in which a detail fetch failed and the
\* thread of a later entry is present, the failed one absent.
C16_Witness ==
    /\ variant = "xbhp"
    /\ Returned
    /\ \E b \in BikeKeys : \E i, j \in DetailGets(b) :
         /\ i < j
         /\ ~log[i].ok
         /\ \A k \in 1..Len(results[b].threads) :
              results[b].threads[k].url # log[i].url
         /\ \E k \in 1..Len(results[b].threads) :
              results[b].threads[k].url = log[j].url

\* C17: in a live scraper the requests are issued one after another, with no
\* retry: every request for bike1 comes before bike2's listing fetch, the
\* listing fetch of an entity comes before each of its detail fetches, an
\* entity has one listing fetch (exactly one once the scraper returns), a
\* candidate item (a position of the listing) has at most one detail fetch,
\* and a request that failed is not issued again for its entity or item.
C17_SequentialNoRetry ==
    variant \in Live =>
        /\ \A i, j \in Gets :
             (log[i].bike = "bike1" /\ log[j].bike = "bike2") => i < j
        /\ \A b \in BikeKeys :
             /\ Cardinality(ListingGets(b)) <= 1
             /\ (Len(argv) = 2 /\ pc \in {"return", "exited"}) =>
                  Cardinality(ListingGets(b)) = 1
             /\ \A d \in DetailGets(b) : \E l \in ListingGets(b) : l < d
             /\ \A d, e \in DetailGets(b) :
                  (d < e) => log[d].item < log[e].item
        /\ \A i, j \in Gets :
             (i < j /\ ~log[i].ok) =>
                 <<log[i].bike, log[i].kind, log[i].item>>
                     # <<log[j].bike, log[j].kind, log[j].item>>
        /\ \A k \in 1..Len(log) : log[k].op \in {"get", "sleep"}

\* A returned run in which a listing fetch failed for bike1, and bike2 had a
\* detail fetch that failed followed by another detail fetch.
C17_Witness ==
    /\ variant \in Live
    /\ Returned
    /\ ListingFailed("bike1")
    /\ \E d, e \in DetailGets("bike2") : d < e /\ ~log[d].ok /\ log[e].ok

====
